---- MODULE Spec2Model ----
(***************************************************************************)
(* isocomp.Coordinates.utils: update_source and create_comparison_windows. *)
(*                                                                         *)
(* A path is a sequence of one-character strings, so that os.path.basename *)
(* and os.path.splitext are computed character by character.  A PyRanges   *)
(* object is a record [columns, rows]: columns is the set of column names  *)
(* and every row is a record whose fields are exactly those columns.       *)
(* create_comparison_windows is followed statement by statement through    *)
(* the program counter pc.                                                 *)
(***************************************************************************)
EXTENDS Integers, Sequences, FiniteSets, TLC

VARIABLES gtf_list, fs, kwargs, pc, i, probes, gtf_pr, pyranges_list,
          concat_ranges, clustered_ranges, error, result

vars == <<gtf_list, fs, kwargs, pc, i, probes, gtf_pr, pyranges_list,
          concat_ranges, clustered_ranges, error, result>>

(***************************************************************************)
(* Bounds of the model.                                                    *)
(***************************************************************************)
MaxFiles == 2
MaxRecs == 3
MaxCoord == 2

(***************************************************************************)
(* Paths and the os.path functions the module calls.                       *)
(***************************************************************************)
PathA == <<"d", "/", "A", ".", "g", "t", "f">>
PathB == <<"B", ".", "g", "t", "f">>
PathAB == <<"a", ".", "b", ".", "g", "t", "f">>
PathTxt == <<"A", ".", "t", "x", "t">>
PathDotDir == <<"d", ".", "g", "t", "f", "/", "A">>
PathHidden == <<".", "g", "t", "f">>

Paths == {PathA, PathB, PathAB, PathTxt, PathDotDir, PathHidden}

GtfExt == <<".", "g", "t", "f">>

Max(S) == CHOOSE x \in S : \A y \in S : y <= x

\* str.rfind: the last index of ch in p, 0 when it does not occur.
RFind(p, ch) == Max({0} \cup {k \in 1..Len(p) : p[k] = ch})

\* os.path.basename: what follows the last separator.
basename(p) == SubSeq(p, RFind(p, "/") + 1, Len(p))

\* os.path.splitext: <<root, ext>>; the extension starts at the last dot of
\* the last component, unless only dots precede it in that component.
splitext(p) ==
    LET sepIndex == RFind(p, "/")
        dotIndex == RFind(p, ".")
    IN  IF /\ dotIndex > sepIndex
           /\ \E k \in (sepIndex + 1)..(dotIndex - 1) : p[k] # "."
        THEN <<SubSeq(p, 1, dotIndex - 1), SubSeq(p, dotIndex, Len(p))>>
        ELSE <<p, <<>> >>

\* The label taken from the whole path, directory included.
SourceLabel_NoBasename(x) == splitext(x)[1]

\* The label of line 72: os.path.splitext(os.path.basename(x))[0].
SourceLabel(x) == splitext(basename(x))[1]

(***************************************************************************)
(* The filesystem: fs[p] is what pr.read_gtf yields for p, NoFile when p   *)
(* does not exist, Unparsable when the parser raises on it.                *)
(***************************************************************************)
NoFile == [columns |-> {"<nofile>"}, rows |-> <<>>]
Unparsable == [columns |-> {"<unparsable>"}, rows |-> <<>>]

exists(p) == fs[p] # NoFile

GtfColumns == {"Chromosome", "Source", "Feature", "Start", "End", "transcript_id"}

Row(c, f, s, e, t) ==
    [Chromosome |-> c, Source |-> <<"h", "a", "v">>, Feature |-> f,
     Start |-> s, End |-> e, transcript_id |-> t]

RowNoSource(c, f, s, e, t) ==
    [Chromosome |-> c, Feature |-> f, Start |-> s, End |-> e, transcript_id |-> t]

Table(rs) == [columns |-> GtfColumns, rows |-> rs]

\* Sample annotation files for the path-rich specification.
SampleFiles ==
    { Table(<< >>),
      Table(<<Row(1, "transcript", 0, 1, "t1")>>),
      Table(<<Row(1, "exon", 0, 3, "t2"), Row(1, "transcript", 1, 3, "t2")>>),
      Table(<<Row(2, "transcript", 0, 1, "t3"), Row(1, "transcript", 3, 3, "t4")>>),
      Table(<<Row(1, "gene", 0, 3, "t5"), Row(1, "exon", 0, 1, "t5")>>),
      Table(<<Row(1, "transcript", 2, 0, "t6")>>),
      [columns |-> GtfColumns \ {"Source"},
       rows |-> <<RowNoSource(1, "transcript", 0, 1, "t7")>>],
      Unparsable }

\* The transcript rows of the clustering specification: every interval of
\* the coordinate grid on chromosome 1 (start > end included, nothing in
\* the code excludes it), three intervals on chromosome 2.
GridRows ==
    { Row(1, "transcript", s, e, "tx") : s \in 0..MaxCoord, e \in 0..MaxCoord }
        \cup { Row(2, "transcript", 0, 0, "tx"),
               Row(2, "transcript", 0, MaxCoord, "tx"),
               Row(2, "transcript", MaxCoord, MaxCoord, "tx") }

SeqsUpTo(S, n) == UNION { [1..k -> S] : k \in 0..n }

NoError == [kind |-> "none", names |-> <<>>]
NoResult == [columns |-> {"<noresult>"}, rows |-> <<>>]
NoObject == [columns |-> {"<noobject>"}, rows |-> <<>>]

Items(S) == { S[k] : k \in DOMAIN S }

(***************************************************************************)
(* update_source (lines 14-32).  The result is the pair of what the call   *)
(* raises and the object gtf_pr as the call leaves it.                     *)
(***************************************************************************)
SetSource(g, new_source) ==
    [g EXCEPT !.rows = [k \in DOMAIN @ |-> [@[k] EXCEPT !.Source = new_source]]]

\* update_source writing the column before it checks for it.
update_source_WriteFirst(g, new_source) ==
    IF "Source" \notin g.columns
    THEN [raises |-> [kind |-> "KeyError", names |-> new_source],
          obj |-> [columns |-> g.columns \cup {"Source"},
                   rows |-> [k \in DOMAIN g.rows |-> g.rows[k] @@ [Source |-> new_source]]]]
    ELSE [raises |-> NoError, obj |-> SetSource(g, new_source)]

update_source(g, new_source) ==
    IF "Source" \notin g.columns
    THEN [raises |-> [kind |-> "KeyError", names |-> new_source], obj |-> g]
    ELSE [raises |-> NoError, obj |-> SetSource(g, new_source)]

(***************************************************************************)
(* pr.concat (line 76) and the Feature filter (line 82).                   *)
(***************************************************************************)
RECURSIVE ConcatRows(_)
ConcatRows(list) ==
    IF list = <<>> THEN <<>> ELSE Head(list).rows \o ConcatRows(Tail(list))

concat(list) == [columns |-> GtfColumns, rows |-> ConcatRows(list)]

IsTranscript(r) == r.Feature = "transcript"

filter_transcripts(c) == [c EXCEPT !.rows = SelectSeq(@, IsTranscript)]

(***************************************************************************)
(* PyRanges.cluster (line 83): per chromosome, in ascending chromosome     *)
(* order, the rows sorted by (Start, End) are swept left to right with the *)
(* running maximum End; a row opens a new cluster when its Start exceeds   *)
(* that maximum plus the slack.  Numbers start at 1 and continue across    *)
(* chromosomes.                                                            *)
(***************************************************************************)
Before(a, b) == a.Start < b.Start \/ (a.Start = b.Start /\ a.End < b.End)

\* The sort that puts every row in front: the rows come out reversed.
InsertSorted_Front(s, r) == <<r>> \o s

InsertSorted(s, r) ==
    LET k == Cardinality({j \in 1..Len(s) : ~Before(r, s[j])})
    IN  SubSeq(s, 1, k) \o <<r>> \o SubSeq(s, k + 1, Len(s))

RECURSIVE SortByStart(_)
SortByStart(rows) ==
    IF rows = <<>> THEN <<>>
    ELSE InsertSorted(SortByStart(SubSeq(rows, 1, Len(rows) - 1)), rows[Len(rows)])

OpensCluster(r, maxEnd, slack) == r.Start > maxEnd + slack

RECURSIVE SweepFrom(_, _, _, _, _)
SweepFrom(s, k, maxEnd, n, slack) ==
    IF k > Len(s) THEN <<>>
    ELSE LET new == OpensCluster(s[k], maxEnd, slack)
             n2 == IF new THEN n + 1 ELSE n
             m2 == IF new \/ s[k].End > maxEnd THEN s[k].End ELSE maxEnd
         IN  <<n2>> \o SweepFrom(s, k + 1, m2, n2, slack)

\* The sweep that numbers every chromosome from 1, whatever came before.
Sweep_Restart(s, n0, slack) ==
    IF s = <<>> THEN <<>>
    ELSE <<1>> \o SweepFrom(s, 2, s[1].End, 1, slack)

\* The cluster numbers of the sorted rows of one chromosome, after n0
\* clusters were numbered in the chromosomes before it.
Sweep(s, n0, slack) ==
    IF s = <<>> THEN <<>>
    ELSE <<n0 + 1>> \o SweepFrom(s, 2, s[1].End, n0 + 1, slack)

GroupOf(rows, c) ==
    LET OnChrom(r) == r.Chromosome = c IN SortByStart(SelectSeq(rows, OnChrom))

Min(S) == CHOOSE x \in S : \A y \in S : x <= y

RECURSIVE ClusterGroups(_, _, _, _)
ClusterGroups(rows, chroms, n0, slack) ==
    IF chroms = {} THEN <<>>
    ELSE LET c == Min(chroms)
             g == GroupOf(rows, c)
             ids == Sweep(g, n0, slack)
             out == [k \in DOMAIN g |-> g[k] @@ [Cluster |-> ids[k]]]
         IN  out \o ClusterGroups(rows, chroms \ {c}, ids[Len(ids)], slack)

cluster(c, slack) ==
    [columns |-> c.columns \cup {"Cluster"},
     rows |-> ClusterGroups(c.rows, {r.Chromosome : r \in Items(c.rows)}, 0, slack)]

(***************************************************************************)
(* create_comparison_windows (lines 35-88), one action per statement.      *)
(***************************************************************************)
Raise(kind, names) ==
    /\ error' = [kind |-> kind, names |-> names]
    /\ pc' = "raised"

\* Lines 59-60: the isinstance check.
CheckType ==
    /\ pc = "check_type"
    /\ \/ /\ gtf_list.type # "list"
          /\ Raise("IOError", <<>>)
          /\ UNCHANGED i
       \/ /\ gtf_list.type = "list"
          /\ pc' = "validate"
          /\ i' = 1
          /\ UNCHANGED error
    /\ UNCHANGED <<gtf_list, fs, kwargs, probes, gtf_pr, pyranges_list,
                   concat_ranges, clustered_ranges, result>>

\* The loop iteration with the extension checked before the existence.
ValidatePath_ExtFirst ==
    /\ pc = "validate"
    /\ i <= Len(gtf_list.items)
    /\ LET path == gtf_list.items[i]
       IN  \/ /\ splitext(path)[2] # GtfExt
              /\ probes' = Append(probes, <<i, "ext">>)
              /\ Raise("AssertionError", path)
              /\ UNCHANGED i
           \/ /\ splitext(path)[2] = GtfExt
              /\ ~exists(path)
              /\ probes' = probes \o << <<i, "ext">>, <<i, "exists">> >>
              /\ Raise("FileNotFoundError", path)
              /\ UNCHANGED i
           \/ /\ exists(path)
              /\ splitext(path)[2] = GtfExt
              /\ probes' = probes \o << <<i, "ext">>, <<i, "exists">> >>
              /\ i' = i + 1
              /\ UNCHANGED <<pc, error>>
    /\ UNCHANGED <<gtf_list, fs, kwargs, gtf_pr, pyranges_list,
                   concat_ranges, clustered_ranges, result>>

\* The loop iteration that passes over a missing path instead of raising.
ValidatePath_SkipMissing ==
    /\ pc = "validate"
    /\ i <= Len(gtf_list.items)
    /\ LET path == gtf_list.items[i]
       IN  \/ /\ ~exists(path)
              /\ probes' = Append(probes, <<i, "exists">>)
              /\ i' = i + 1
              /\ UNCHANGED <<pc, error>>
           \/ /\ exists(path)
              /\ splitext(path)[2] # GtfExt
              /\ probes' = probes \o << <<i, "exists">>, <<i, "ext">> >>
              /\ Raise("AssertionError", path)
              /\ UNCHANGED i
           \/ /\ exists(path)
              /\ splitext(path)[2] = GtfExt
              /\ probes' = probes \o << <<i, "exists">>, <<i, "ext">> >>
              /\ i' = i + 1
              /\ UNCHANGED <<pc, error>>
    /\ UNCHANGED <<gtf_list, fs, kwargs, gtf_pr, pyranges_list,
                   concat_ranges, clustered_ranges, result>>

\* Lines 61-68: one iteration of the validation loop, on path number i.
ValidatePath ==
    /\ pc = "validate"
    /\ i <= Len(gtf_list.items)
    /\ LET path == gtf_list.items[i]
       IN  \/ /\ ~exists(path)
              /\ probes' = Append(probes, <<i, "exists">>)
              /\ Raise("FileNotFoundError", path)
              /\ UNCHANGED i
           \/ /\ exists(path)
              /\ splitext(path)[2] # GtfExt
              /\ probes' = probes \o << <<i, "exists">>, <<i, "ext">> >>
              /\ Raise("AssertionError", path)
              /\ UNCHANGED i
           \/ /\ exists(path)
              /\ splitext(path)[2] = GtfExt
              /\ probes' = probes \o << <<i, "exists">>, <<i, "ext">> >>
              /\ i' = i + 1
              /\ UNCHANGED <<pc, error>>
    /\ UNCHANGED <<gtf_list, fs, kwargs, gtf_pr, pyranges_list,
                   concat_ranges, clustered_ranges, result>>

\* The loop leaving before its last path is checked.
ValidateDone_Early ==
    /\ pc = "validate"
    /\ i >= Len(gtf_list.items)
    /\ pc' = "read"
    /\ i' = 1
    /\ UNCHANGED <<gtf_list, fs, kwargs, probes, gtf_pr, pyranges_list,
                   concat_ranges, clustered_ranges, error, result>>

\* The loop of lines 61-68 ends; the comprehension of lines 71-73 starts.
ValidateDone ==
    /\ pc = "validate"
    /\ i > Len(gtf_list.items)
    /\ pc' = "read"
    /\ i' = 1
    /\ UNCHANGED <<gtf_list, fs, kwargs, probes, gtf_pr, pyranges_list,
                   concat_ranges, clustered_ranges, error, result>>

\* Line 71: pr.read_gtf(x) for file number i; what the parser raises
\* propagates.
ReadGtf ==
    /\ pc = "read"
    /\ i <= Len(gtf_list.items)
    /\ LET x == gtf_list.items[i]
       IN  \/ /\ fs[x] = Unparsable
              /\ Raise("ParserError", x)
              /\ UNCHANGED gtf_pr
           \/ /\ fs[x] # Unparsable
              /\ gtf_pr' = fs[x]
              /\ pc' = "tag"
              /\ UNCHANGED error
    /\ UNCHANGED <<gtf_list, fs, kwargs, i, probes, pyranges_list,
                   concat_ranges, clustered_ranges, result>>

\* Lines 71-72: update_source on the object just read, with the label
\* derived from the path; the result is collected into pyranges_list.
TagSource ==
    /\ pc = "tag"
    /\ LET x == gtf_list.items[i]
           r == update_source(gtf_pr, SourceLabel(x))
       IN  /\ gtf_pr' = r.obj
           /\ \/ /\ r.raises # NoError
                 /\ Raise(r.raises.kind, r.raises.names)
                 /\ UNCHANGED <<i, pyranges_list>>
              \/ /\ r.raises = NoError
                 /\ pyranges_list' = Append(pyranges_list, r.obj)
                 /\ i' = i + 1
                 /\ pc' = "read"
                 /\ UNCHANGED error
    /\ UNCHANGED <<gtf_list, fs, kwargs, probes, concat_ranges,
                   clustered_ranges, result>>

\* Line 76.
Concat ==
    /\ pc = "read"
    /\ i > Len(gtf_list.items)
    /\ concat_ranges' = concat(pyranges_list)
    /\ pc' = "filter"
    /\ UNCHANGED <<gtf_list, fs, kwargs, i, probes, gtf_pr, pyranges_list,
                   clustered_ranges, error, result>>

\* Line 82.
Filter ==
    /\ pc = "filter"
    /\ concat_ranges' = filter_transcripts(concat_ranges)
    /\ pc' = "cluster"
    /\ UNCHANGED <<gtf_list, fs, kwargs, i, probes, gtf_pr, pyranges_list,
                   clustered_ranges, error, result>>

\* Line 83.
Cluster ==
    /\ pc = "cluster"
    /\ clustered_ranges' = cluster(concat_ranges, kwargs.slack)
    /\ pc' = "log"
    /\ UNCHANGED <<gtf_list, fs, kwargs, i, probes, gtf_pr, pyranges_list,
                   concat_ranges, error, result>>

\* Lines 85-88: max(clustered_ranges.Cluster) is evaluated for the debug
\* message whatever the log level; max() of an empty column raises
\* ValueError.  Otherwise the clustered object is returned.
LogAndReturn ==
    /\ pc = "log"
    /\ \/ /\ clustered_ranges.rows = <<>>
          /\ Raise("ValueError", <<>>)
          /\ UNCHANGED result
       \/ /\ clustered_ranges.rows # <<>>
          /\ result' = clustered_ranges
          /\ pc' = "returned"
          /\ UNCHANGED error
    /\ UNCHANGED <<gtf_list, fs, kwargs, i, probes, gtf_pr, pyranges_list,
                   concat_ranges, clustered_ranges>>

(***************************************************************************)
(* Specifications.                                                         *)
(***************************************************************************)
Slacks == {0, 1}

FileSystems(listed, contents) ==
    { [p \in Paths |-> IF p \in listed THEN f[p] ELSE NoFile] :
        f \in [listed -> contents \cup {NoFile}] }

Inputs ==
    { [type |-> "list", items |-> l] : l \in SeqsUpTo(Paths, MaxFiles) }
        \cup { [type |-> "tuple", items |-> <<PathA>>] }

Init ==
    /\ gtf_list \in Inputs
    /\ fs \in FileSystems(Items(gtf_list.items), SampleFiles)
    /\ kwargs \in { [slack |-> k] : k \in Slacks }
    /\ pc = "check_type"
    /\ i = 0
    /\ probes = <<>>
    /\ gtf_pr = NoObject
    /\ pyranges_list = <<>>
    /\ concat_ranges = NoObject
    /\ clustered_ranges = NoObject
    /\ error = NoError
    /\ result = NoResult

Next ==
    \/ CheckType
    \/ ValidatePath
    \/ ValidateDone
    \/ ReadGtf
    \/ TagSource
    \/ Concat
    \/ Filter
    \/ Cluster
    \/ LogAndReturn

Spec == Init /\ [][Next]_vars

\* The clustering step on its own: the program stands before line 83 in a
\* run on the single file PathA, called without keyword arguments (slack
\* 0), the rows of the file drawn from the grid.
InitCluster ==
    \E rs \in SeqsUpTo(GridRows, MaxRecs) :
        LET tagged == SetSource(Table(rs), SourceLabel(PathA))
        IN  /\ gtf_list = [type |-> "list", items |-> <<PathA>>]
            /\ fs = [p \in Paths |-> IF p = PathA THEN Table(rs) ELSE NoFile]
            /\ kwargs = [slack |-> 0]
            /\ pc = "cluster"
            /\ i = 2
            /\ probes = << <<1, "exists">>, <<1, "ext">> >>
            /\ gtf_pr = tagged
            /\ pyranges_list = <<tagged>>
            /\ concat_ranges = filter_transcripts(concat(<<tagged>>))
            /\ clustered_ranges = NoObject
            /\ error = NoError
            /\ result = NoResult

NextCluster == Cluster

SpecCluster == InitCluster /\ [][NextCluster]_vars

(***************************************************************************)
(* Definitions shared by the properties.                                   *)
(***************************************************************************)
Terminal == pc \in {"returned", "raised"}

Clustered == clustered_ranges # NoObject

StripCluster(r) ==
    [Chromosome |-> r.Chromosome, Source |-> r.Source, Feature |-> r.Feature,
     Start |-> r.Start, End |-> r.End, transcript_id |-> r.transcript_id]

Count(rows, v) == Cardinality({k \in DOMAIN rows : rows[k] = v})

\* The base name of each path without directory and extension, written out.
ExpectedLabel(p) ==
    CASE p = PathA -> <<"A">>
      [] p = PathB -> <<"B">>
      [] p = PathAB -> <<"a", ".", "b">>
      [] p = PathTxt -> <<"A">>
      [] p = PathDotDir -> <<"A">>
      [] p = PathHidden -> <<".", "g", "t", "f">>

\* The transcript rows of the listed files, each with the label of its file
\* as Source, file after file in list order.
RECURSIVE ExpectedRows(_)
ExpectedRows(k) ==
    IF k = 0 THEN <<>>
    ELSE LET p == gtf_list.items[k]
             rs == SelectSeq(fs[p].rows, IsTranscript)
         IN  ExpectedRows(k - 1)
                 \o [j \in DOMAIN rs |-> [rs[j] EXCEPT !.Source = ExpectedLabel(p)]]

Offends(p) == ~exists(p) \/ splitext(p)[2] # GtfExt

Offenders == {k \in DOMAIN gtf_list.items : Offends(gtf_list.items[k])}

Missing == {k \in DOMAIN gtf_list.items : ~exists(gtf_list.items[k])}

(***************************************************************************)
(* C3.  Original statement: whenever the list holds a missing path, the    *)
(* run ends with the not-found error naming the first missing path,        *)
(* whatever the other paths are.                                           *)
(***************************************************************************)
FirstMissingReported ==
    error = [kind |-> "FileNotFoundError", names |-> gtf_list.items[Min(Missing)]]

\* C3 as stated: a list holding a missing path always ends with the
\* not-found error naming its first missing path.
OriginalC3 ==
    (Terminal /\ gtf_list.type = "list" /\ Missing # {}) => FirstMissingReported

\* C3 as amended: when the list holds a missing path, the run ends with the
\* not-found error naming the first missing path if every path before it has
\* the .gtf extension; if an earlier path (which exists) has another
\* extension, the run ends with the extension error naming the first such
\* path.
TheoremC3 ==
    (Terminal /\ gtf_list.type = "list" /\ Missing # {}) =>
        LET m == Min(Missing)
            wrong == {k \in 1..(m - 1) : splitext(gtf_list.items[k])[2] # GtfExt}
        IN  IF wrong = {}
            THEN FirstMissingReported
            ELSE error = [kind |-> "AssertionError",
                          names |-> gtf_list.items[Min(wrong)]]

WitnessC3 ==
    /\ Terminal
    /\ gtf_list.type = "list"
    /\ Missing # {}
    /\ Min(Missing) > 1
    /\ FirstMissingReported

(***************************************************************************)
(* C10.  The validation loop examines the paths in list order, existence   *)
(* before extension, and stops at the first path failing either check: the *)
(* error names the earliest offending path, it is the not-found error      *)
(* exactly when that path is missing, and no later path is examined.       *)
(***************************************************************************)
RECURSIVE PassedProbes(_)
PassedProbes(k) ==
    IF k = 0 THEN <<>>
    ELSE PassedProbes(k - 1) \o << <<k, "exists">>, <<k, "ext">> >>

\* C10: the error names the earliest offending path, is the not-found error
\* exactly when that path is missing, and the probes end at that path.
TheoremC10 ==
    (Terminal /\ gtf_list.type = "list" /\ Offenders # {}) =>
        LET k == Min(Offenders)
            p == gtf_list.items[k]
        IN  /\ error.names = p
            /\ error.kind = IF exists(p) THEN "AssertionError" ELSE "FileNotFoundError"
            /\ probes = PassedProbes(k - 1) \o
                          (IF exists(p) THEN << <<k, "exists">>, <<k, "ext">> >>
                                        ELSE << <<k, "exists">> >>)

WitnessC10 ==
    /\ Terminal
    /\ gtf_list.type = "list"
    /\ Cardinality(Offenders) > 1
    /\ LET p == gtf_list.items[Min(Offenders)]
       IN  /\ ~exists(p)
           /\ splitext(p)[2] # GtfExt
           /\ error = [kind |-> "FileNotFoundError", names |-> p]

(***************************************************************************)
(* C4.  No file is parsed before every path of the list has passed the     *)
(* existence and the extension check; a failure in any stage ends the run  *)
(* with that error, nothing happens after it and no collection is          *)
(* returned.                                                               *)
(***************************************************************************)
AllValidated ==
    /\ gtf_list.type = "list"
    /\ \A k \in DOMAIN gtf_list.items :
          /\ ~Offends(gtf_list.items[k])
          /\ <<k, "exists">> \in Items(probes)
          /\ <<k, "ext">> \in Items(probes)

ParsingBegun ==
    \/ pc \in {"tag", "filter", "cluster", "log", "returned"}
    \/ gtf_pr # NoObject
    \/ pyranges_list # <<>>
    \/ error.kind \in {"ParserError", "KeyError", "ValueError"}

FailFast ==
    /\ ParsingBegun => AllValidated
    /\ error # NoError => (pc = "raised" /\ result = NoResult)
    /\ result # NoResult => (pc = "returned" /\ error = NoError)

\* C4: parsing starts only after every path passed both checks; an error
\* ends the run, nothing changes after it and nothing is returned.
TheoremC4 == [](FailFast) /\ [][error # NoError => UNCHANGED vars]_vars

WitnessC4 ==
    /\ pc = "raised"
    /\ error.kind = "ParserError"
    /\ Len(pyranges_list) = 1
    /\ result = NoResult

(***************************************************************************)
(* C5.  update_source on an object with a Source column sets the Source of *)
(* every row to the label and changes nothing else; on an object without   *)
(* that column it raises KeyError naming the label and the object is left  *)
(* exactly as it was.                                                      *)
(***************************************************************************)
TagStep ==
    pc = "tag" =>
        LET label == ExpectedLabel(gtf_list.items[i])
        IN  IF "Source" \in gtf_pr.columns
            THEN /\ gtf_pr'.columns = gtf_pr.columns
                 /\ DOMAIN gtf_pr'.rows = DOMAIN gtf_pr.rows
                 /\ \A k \in DOMAIN gtf_pr.rows :
                       /\ DOMAIN gtf_pr'.rows[k] = DOMAIN gtf_pr.rows[k]
                       /\ gtf_pr'.rows[k].Source = label
                       /\ \A f \in DOMAIN gtf_pr.rows[k] \ {"Source"} :
                             gtf_pr'.rows[k][f] = gtf_pr.rows[k][f]
                 /\ error' = NoError
                 /\ pyranges_list' = Append(pyranges_list, gtf_pr')
            ELSE /\ gtf_pr' = gtf_pr
                 /\ error' = [kind |-> "KeyError", names |-> label]
                 /\ pyranges_list' = pyranges_list

\* C5: every tagging step sets Source alone on an object that has the
\* column, and raises KeyError leaving the object untouched on one that has
\* not.
TheoremC5 == [][TagStep]_vars

WitnessC5 ==
    /\ pc = "raised"
    /\ error.kind = "KeyError"
    /\ pyranges_list # <<>>
    /\ \E k \in DOMAIN pyranges_list[1].rows :
          pyranges_list[1].rows[k].Source = SourceLabel(gtf_list.items[1])
    /\ gtf_pr = fs[gtf_list.items[i]]

(***************************************************************************)
(* C9.  The returned collection holds exactly the transcript rows of the   *)
(* listed files, each once, with the base name of its file (no directory,  *)
(* no extension) as Source; the files are tagged and concatenated in list  *)
(* order.                                                                  *)
(***************************************************************************)
Returned == [k \in DOMAIN result.rows |-> StripCluster(result.rows[k])]

TheoremC9 ==
    result # NoResult =>
        LET exp == ExpectedRows(Len(gtf_list.items))
        IN  /\ Len(Returned) = Len(exp)
            /\ \A v \in Items(Returned) \cup Items(exp) :
                  Count(Returned, v) = Count(exp, v)
            /\ \A k \in DOMAIN Returned : Returned[k].Feature = "transcript"
            /\ concat_ranges.rows = exp
            /\ Len(pyranges_list) = Len(gtf_list.items)
            /\ \A k \in DOMAIN pyranges_list :
                  /\ Len(pyranges_list[k].rows) = Len(fs[gtf_list.items[k]].rows)
                  /\ \A j \in DOMAIN pyranges_list[k].rows :
                        pyranges_list[k].rows[j] =
                            [fs[gtf_list.items[k]].rows[j]
                                EXCEPT !.Source = ExpectedLabel(gtf_list.items[k])]

WitnessC9 ==
    /\ result # NoResult
    /\ Len(gtf_list.items) = 2
    /\ gtf_list.items[1] = PathA
    /\ Len(pyranges_list[1].rows) + Len(pyranges_list[2].rows) > Len(result.rows)
    /\ Len(result.rows) > 1
    /\ Returned # ExpectedRows(2)

(***************************************************************************)
(* C6.  When the filter leaves no row, the run raises nothing and returns  *)
(* an empty collection.                                                    *)
(***************************************************************************)
\* C6 as stated: a run on files none of whose rows is a transcript ends
\* without error, returning the empty clustered collection.
OriginalC6 ==
    (Terminal /\ Clustered /\ pyranges_list # <<>> /\ concat_ranges.rows = <<>>) =>
        (pc = "returned" /\ error = NoError /\ result.rows = <<>>)

(***************************************************************************)
(* C7.  A row with Start > End never reaches the clustering step: no       *)
(* cluster number is assigned in a run whose rows include one.             *)
(***************************************************************************)
Malformed(r) == r.Start > r.End

\* C7 as stated: no clustered row has Start > End.
OriginalC7 ==
    Clustered => \A k \in DOMAIN clustered_ranges.rows : ~Malformed(clustered_ranges.rows[k])

(***************************************************************************)
(* C1.  With slack 0, two clustered rows carry the same Cluster value      *)
(* exactly when they are on the same chromosome and linked by a chain of   *)
(* rows in which consecutive rows overlap or touch.                        *)
(***************************************************************************)
Adjacent(a, b) ==
    /\ a.Chromosome = b.Chromosome
    /\ \/ (a.Start < b.End /\ b.Start < a.End)
       \/ a.Start = b.End
       \/ b.Start = a.End

RECURSIVE Linked(_, _)
Linked(rows, S) ==
    LET T == S \cup {k \in DOMAIN rows : \E j \in S : Adjacent(rows[j], rows[k])}
    IN  IF T = S THEN S ELSE Linked(rows, T)

ClustersAreComponents ==
    LET rows == clustered_ranges.rows
    IN  \A j, k \in DOMAIN rows :
           (rows[j].Cluster = rows[k].Cluster) <=> (k \in Linked(rows, {j}))

\* C1 as stated: with slack 0, same Cluster value exactly when linked by a
\* chain of overlapping or touching rows of one chromosome.
OriginalC1 == (Clustered /\ kwargs.slack = 0) => ClustersAreComponents

\* The statement of C1 holds of the runs whose rows all have Start <= End.
ComponentsOfWellFormed ==
    (/\ Clustered
     /\ kwargs.slack = 0
     /\ \A k \in DOMAIN clustered_ranges.rows : ~Malformed(clustered_ranges.rows[k]))
        => ClustersAreComponents

(***************************************************************************)
(* C2.  The Cluster values of a non-empty clustered collection are exactly *)
(* 1..k; in the order the rows are emitted the value starts at 1 and goes  *)
(* up by one only where a row opens a cluster (a new chromosome, or a      *)
(* Start beyond the largest End of the cluster before it plus the slack);  *)
(* and the value never decreases from a row to a row later in              *)
(* (chromosome, start) order.                                              *)
(***************************************************************************)
ClusterValues(rows) == {rows[k].Cluster : k \in DOMAIN rows}

EndsOfCluster(rows, n) == {rows[k].End : k \in {j \in DOMAIN rows : rows[j].Cluster = n}}

Again ==
    cluster([columns |-> clustered_ranges.columns \ {"Cluster"},
             rows |-> [k \in DOMAIN clustered_ranges.rows |->
                          StripCluster(clustered_ranges.rows[k])]],
            kwargs.slack).rows

\* The rows of cluster n, as the number of times each row occurs in it.
Members(rows, n) ==
    [v \in {StripCluster(rows[k]) : k \in DOMAIN rows} |->
        Cardinality({k \in DOMAIN rows : rows[k].Cluster = n /\ StripCluster(rows[k]) = v})]

SamePartition(r1, r2) ==
    LET ids1 == ClusterValues(r1)
        ids2 == ClusterValues(r2)
        M1 == [n \in ids1 |-> Members(r1, n)]
        M2 == [n \in ids2 |-> Members(r2, n)]
    IN  /\ Len(r1) = Len(r2)
        /\ Cardinality(ids1) = Cardinality(ids2)
        /\ \A n \in ids1 :
              Cardinality({m \in ids1 : M1[m] = M1[n]})
                  = Cardinality({m \in ids2 : M2[m] = M1[n]})

\* C8: the second clustering groups the rows as the first did.
TheoremC8 ==
    Clustered => LET again == Again IN SamePartition(clustered_ranges.rows, again)

WitnessC8 ==
    /\ Clustered
    /\ Len(clustered_ranges.rows) = 3
    /\ Cardinality(ClusterValues(clustered_ranges.rows)) = 2
    /\ concat_ranges.rows # [k \in DOMAIN clustered_ranges.rows |->
                                StripCluster(clustered_ranges.rows[k])]
    /\ SamePartition(clustered_ranges.rows, Again)

====
